---- MODULE Spec2Model ----
(***************************************************************************)
(* GeniusGate: the payment / wallet handlers and the quiz-session state    *)
(* machine with its reward settlement, as implemented by the TypeScript    *)
(* backend (controllers + services over Mongoose models).                  *)
(*                                                                         *)
(* Money is counted in cents.  Every `await` on the store is one atomic    *)
(* step of a request handler; purely local computation is folded into the  *)
(* store access that precedes it.  Each request handler runs in one of the *)
(* slots of Procs, so two requests can interleave at their awaits.         *)
(***************************************************************************)
EXTENDS Integers, Sequences, FiniteSets, TLC

\* ------------------------------------------------------------------ bounds
MaxRequests == 4          \* requests served in one behaviour
MaxTime     == 1          \* clock ticks in one behaviour
MaxSessions == 1          \* quiz sessions created in one behaviour
MaxSessionAge == 1        \* age after which the sweep may abandon a session
NumQuestions == 2         \* questions in a generated set

\* ------------------------------------------------------- program constants
QuizFee        == 100     \* 1.00, the quiz entry fee
MinPayment     == 100     \* 1.00, the minimum deposit
RewardRate     == 10      \* 0.10 per correct answer
InitialBalance == 0       \* walletBalance of a newly registered user

Procs == {1, 2}
Users == {"u1", "u2"}

SchemaPaymentMethods   == {"flutterwave", "stripe", "momo"}
SchemaTypes            == {"debit", "credit"}
SchemaStatuses         == {"pending", "completed", "failed"}
validPaymentMethods    == {"flutterwave", "stripe", "momo"}
validWithdrawalMethods == {"flutterwave", "momo", "bank_transfer"}
AnswerLabels           == {"A", "B", "C", "D"}
validCategories        == {"science", "technology", "history", "geography", "sports",
                           "entertainment", "politics", "art", "literature",
                           "mathematics", "biology", "physics", "chemistry",
                           "general-knowledge", "programming"}
validDifficulties      == {"easy", "medium", "hard"}

\* ------------------------------------------------------- request inputs
PayAmountInputs      == {50, 200}
PayMethodInputs      == {"flutterwave", "paypal"}
WithdrawAmountInputs == {0, 100, 300}
WithdrawMethodInputs == {"flutterwave", "bank_transfer", "paypal"}
WebhookStatusInputs  == {"successful", "failed", "processing"}
WebhookGatewayInputs == {"flutterwave", "airtel_money", "unknown"}
AirtelStatusInputs   == {"TS", "TF", "TIP"}
CategoryInputs       == {"science", "cooking"}
DifficultyInputs     == {"easy", "hard", "extreme"}
AnswerInputs         == {"A", "B", "E"}
IndexInputs          == -1 .. NumQuestions
CorrectAnswers       == {"A", "B"}

VARIABLES
  wallet,      \* User.walletBalance, per user
  txns,        \* the Transaction collection
  sessions,    \* the QuizSession collection; a session's _id is its index
  credits,     \* per session: the amounts completeQuiz has $inc'ed into a wallet
  acked,       \* per session and question index: the answer last acknowledged
  now,         \* the clock (Date.now())
  pc,          \* per slot: where its request handler stands
  loc,         \* per slot: the handler's local variables
  resp,        \* the response the last step sent, if it sent one
  requests,    \* requests served so far
  genCalls,    \* calls of AIService.generateQuestions so far
  durable,     \* the AIQuestion collection (the durable cache tier), oldest first
  fast,        \* the Redis keys (the fast cache tier)
  calc         \* the reward computation at hand: its inputs and its result

vars == <<wallet, txns, sessions, credits, acked, now, pc, loc, resp, requests, genCalls, durable, fast, calc>>

\* ---------------------------------------------------------------- helpers
Ref(kind, id) == [kind |-> kind, id |-> id]
NoRef == Ref("none", 0)

NoLoc == [user |-> "none", bal |-> 0, ref |-> NoRef, sid |-> 0, amount |-> 0,
          idx |-> 0, ans |-> "", score |-> 0, reward |-> 0, t |-> 0,
          status |-> "", type |-> "", method |-> "", questions |-> <<>>,
          tdone |-> FALSE, sdone |-> FALSE, failed |-> FALSE,
          category |-> "", difficulty |-> "", cacheKey |-> <<>>]

\* No reward computation at hand.
NoCalc == [op |-> "none", total |-> 0, correct |-> 0, timeSpent |-> 0, wins |-> 0,
           credited |-> 0]

\* A request as the response log names it: the operation and its arguments.
Req(op, user, sid, amount) == [op |-> op, user |-> user, sid |-> sid, amount |-> amount]
NoReq == Req("none", "none", 0, 0)
ReqOf(op, l) == Req(op, l.user, l.sid, l.amount)

\* The payload of a response that carries none.
NoData == [none |-> TRUE]

NoResp == [proc |-> 0, kind |-> "none", req |-> NoReq, data |-> NoData]
Sent(p, req, kind, data) == [proc |-> p, kind |-> kind, req |-> req, data |-> data]

\* One request ends: the response is sent and the slot is free again.
FinishWith(p, req, kind, data) ==
  /\ pc' = [pc EXCEPT ![p] = "idle"]
  /\ loc' = [loc EXCEPT ![p] = NoLoc]
  /\ resp' = Sent(p, req, kind, data)

Finish(p, req, kind) == FinishWith(p, req, kind, NoData)

\* The handler in slot p goes on to its next await.
Goto(p, label, l) ==
  /\ pc' = [pc EXCEPT ![p] = label]
  /\ loc' = [loc EXCEPT ![p] = l]
  /\ resp' = NoResp

\* A slot accepts a new request.
Accept(p) ==
  /\ pc[p] = "idle"
  /\ requests < MaxRequests
  /\ requests' = requests + 1

\* ------------------------------------------------ the Transaction schema
ValidTransaction(t) ==
  /\ t.user \in Users
  /\ t.type \in SchemaTypes
  /\ t.status \in SchemaStatuses
  /\ t.method \in SchemaPaymentMethods

HasRef(ledger, ref) == \E t \in ledger : t.ref = ref

\* The outcome of the save on a collection without the unique index.
SaveOutcome_NoUniqueIndex(ledger, t) ==
  IF ~ValidTransaction(t) THEN "ValidationError" ELSE "ok"

\* The outcome of `new Transaction(t).save()` on the collection `ledger`.
SaveOutcome(ledger, t) ==
  IF ~ValidTransaction(t) THEN "ValidationError"
  ELSE IF HasRef(ledger, t.ref) THEN "DuplicateKey"
  ELSE "ok"

InsertTransaction(ledger, t) ==
  IF SaveOutcome(ledger, t) = "ok" THEN ledger \cup {t} ELSE ledger

\* `transaction.save()` of a loaded document whose status was assigned.
SetStatus(ledger, ref, s) ==
  {IF t.ref = ref THEN [t EXCEPT !.status = s] ELSE t : t \in ledger}

FindByRef(ledger, ref) == {t \in ledger : t.ref = ref}

\* The wallet validator of the User schema (min: 0), run by `user.save()`.
ValidBalance(b) == b >= 0

\* `user.save()` of a loaded document whose walletBalance was assigned b.
SaveUser(w, u, b) == IF ValidBalance(b) THEN [w EXCEPT ![u] = b] ELSE w

\* ------------------------------------------------------ payment gateway
\* PaymentService.initialize<Gateway>Payment: the reference a gateway returns.
PaymentReferenceFor(method) ==
  CASE method = "flutterwave" -> Ref("FLW_REF", 0)
    [] method = "momo"        -> Ref("MOMO_REF", 0)
    [] method = "stripe"      -> Ref("STRIPE_REF", 0)
    [] OTHER                  -> NoRef

\* PaymentService.verifyPayment: the `success` values a gateway can answer.
GatewayOutcomes(method) ==
  CASE method \in {"flutterwave", "momo", "stripe"} -> {TRUE}
    [] method = "airtel_money"                      -> BOOLEAN
    [] OTHER                                        -> {FALSE}

\* PaymentService.verifyWebhookSignature; sig is whether the Airtel signature
\* header equals the expected one.
VerifyWebhookSignature(gateway, sig) ==
  CASE gateway = "airtel_money" -> sig
    [] gateway = "flutterwave"  -> TRUE
    [] OTHER                    -> FALSE

\* What a handler answers once its concurrent saves have all settled.
SettledResponse(failed) == IF failed THEN "ServerError" ELSE "ok"

\* ----------------------------------------- PaymentController.initializePayment
InitializePayment(p, u, amount, method) ==
  /\ Accept(p)
  /\ IF method \notin validPaymentMethods
       THEN Finish(p, Req("initializePayment", u, 0, amount),
                   "InvalidPaymentMethod") /\ UNCHANGED txns
     ELSE IF amount < MinPayment
       THEN Finish(p, Req("initializePayment", u, 0, amount), "InvalidAmount") /\ UNCHANGED txns
     ELSE LET t == [user |-> u, amount |-> amount, type |-> "debit",
                    status |-> "pending", method |-> method,
                    ref |-> PaymentReferenceFor(method)]
          IN /\ txns' = InsertTransaction(txns, t)
             /\ Finish(p, Req("initializePayment", u, 0, amount),
                       SettledResponse(SaveOutcome(txns, t) # "ok"))
  /\ UNCHANGED <<wallet, sessions, credits, acked, now, genCalls, durable, fast, calc>>

\* -------------------------------------------- PaymentController.verifyPayment
\* findOne({paymentReference, user}), the early return, the gateway call.
VerifyPayment(p, u, ref) ==
  /\ Accept(p)
  /\ LET found == {t \in FindByRef(txns, ref) : t.user = u} IN
       IF found = {} THEN Finish(p, Req("verifyPayment", u, 0, 0), "TransactionNotFound")
       ELSE LET t == CHOOSE x \in found : TRUE IN
         IF t.status = "completed" THEN Finish(p, Req("verifyPayment", u, 0, 0),
                                               "AlreadyVerified")
         ELSE \E success \in GatewayOutcomes(t.method) :
           LET l == [NoLoc EXCEPT !.user = t.user, !.ref = ref, !.status = "completed",
                                  !.amount = t.amount, !.type = t.type] IN
             IF success
               THEN IF t.type = "debit" THEN Goto(p, "vp_user", l)
                                        ELSE Goto(p, "vp_tsave", l)
               ELSE Goto(p, "vp_tsave", [l EXCEPT !.status = "failed"])
  /\ UNCHANGED <<wallet, txns, sessions, credits, acked, now, genCalls, durable, fast, calc>>

\* User.findById(transaction.user); user.walletBalance += transaction.amount
VpUser(p) ==
  /\ pc[p] = "vp_user"
  /\ Goto(p, "vp_usave", [loc[p] EXCEPT !.bal = wallet[loc[p].user] + loc[p].amount])
  /\ UNCHANGED <<wallet, txns, sessions, credits, acked, now, requests, genCalls, durable, fast, calc>>

\* user.save()
VpUserSave(p) ==
  /\ pc[p] = "vp_usave"
  /\ wallet' = SaveUser(wallet, loc[p].user, loc[p].bal)
  /\ Goto(p, "vp_tsave", loc[p])
  /\ UNCHANGED <<txns, sessions, credits, acked, now, requests, genCalls, durable, fast, calc>>

\* transaction.save() with the status the handler assigned
VpTxnSave(p) ==
  /\ pc[p] = "vp_tsave"
  /\ txns' = SetStatus(txns, loc[p].ref, loc[p].status)
  /\ Finish(p, ReqOf("verifyPayment", loc[p]),
            IF loc[p].status = "completed" THEN "ok" ELSE "VerificationFailed")
  /\ UNCHANGED <<wallet, sessions, credits, acked, now, requests, genCalls, durable, fast, calc>>

\* transaction.save() is rejected by the store (it is unreachable, or the write
\* times out): the catch block answers; nothing the handler wrote is undone.
VpTxnSaveError(p) ==
  /\ pc[p] = "vp_tsave"
  /\ Finish(p, ReqOf("verifyPayment", loc[p]), "ServerError")
  /\ UNCHANGED <<wallet, txns, sessions, credits, acked, now, requests, genCalls, durable, fast, calc>>

\* ------------------------------------------- PaymentController.paymentWebhook
PaymentWebhook(p, ref, status, gateway, sig) ==
  /\ Accept(p)
  /\ LET found == FindByRef(txns, ref) IN
       IF found = {} THEN Finish(p, Req("paymentWebhook", "none", 0, 0), "TransactionNotFound")
       ELSE IF ~VerifyWebhookSignature(gateway, sig) THEN
           Finish(p, Req("paymentWebhook", "none", 0, 0),
                  "InvalidSignature")
       ELSE LET t == CHOOSE x \in found : TRUE
                l == [NoLoc EXCEPT !.user = t.user, !.ref = ref, !.status = "completed",
                                   !.amount = t.amount, !.type = t.type] IN
         IF status \in {"successful", "completed"}
           THEN IF t.type = "debit" THEN Goto(p, "wh_user", l)
                                    ELSE Goto(p, "wh_tsave", l)
         ELSE IF status \in {"failed", "cancelled"} THEN Goto(p, "wh_tsave", [l EXCEPT !.status = "failed"])
         ELSE Finish(p, Req("paymentWebhook", "none", 0, 0), "ok")
  /\ UNCHANGED <<wallet, txns, sessions, credits, acked, now, genCalls, durable, fast, calc>>

WhUser(p) ==
  /\ pc[p] = "wh_user"
  /\ Goto(p, "wh_usave", [loc[p] EXCEPT !.bal = wallet[loc[p].user] + loc[p].amount])
  /\ UNCHANGED <<wallet, txns, sessions, credits, acked, now, requests, genCalls, durable, fast, calc>>

WhUserSave(p) ==
  /\ pc[p] = "wh_usave"
  /\ wallet' = SaveUser(wallet, loc[p].user, loc[p].bal)
  /\ Goto(p, "wh_tsave", loc[p])
  /\ UNCHANGED <<txns, sessions, credits, acked, now, requests, genCalls, durable, fast, calc>>

WhTxnSave(p) ==
  /\ pc[p] = "wh_tsave"
  /\ txns' = SetStatus(txns, loc[p].ref, loc[p].status)
  /\ Finish(p, ReqOf("paymentWebhook", loc[p]), "ok")
  /\ UNCHANGED <<wallet, sessions, credits, acked, now, requests, genCalls, durable, fast, calc>>

\* transaction.save() is rejected by the store: the catch block answers.
WhTxnSaveError(p) ==
  /\ pc[p] = "wh_tsave"
  /\ Finish(p, ReqOf("paymentWebhook", loc[p]), "ServerError")
  /\ UNCHANGED <<wallet, txns, sessions, credits, acked, now, requests, genCalls, durable, fast, calc>>

\* ------------------------------------ PaymentService.processAirtelMoneyWebhook
ProcessAirtelMoneyWebhook(p, ref, status) ==
  /\ Accept(p)
  /\ LET found == FindByRef(txns, ref) IN
       IF found = {} THEN Finish(p, Req("processAirtelMoneyWebhook", "none", 0, 0),
                                 "TransactionNotFound")
       ELSE LET t == CHOOSE x \in found : TRUE
                l == [NoLoc EXCEPT !.user = t.user, !.ref = ref, !.status = "completed",
                                   !.amount = t.amount, !.type = t.type] IN
         IF status = "TS" THEN Goto(p, "aw_user", l)
         ELSE IF status = "TF" THEN Goto(p, "aw_tsave", [l EXCEPT !.status = "failed"])
         ELSE Finish(p, Req("processAirtelMoneyWebhook", "none", 0, 0), "ok")
  /\ UNCHANGED <<wallet, txns, sessions, credits, acked, now, genCalls, durable, fast, calc>>

AwUser(p) ==
  /\ pc[p] = "aw_user"
  /\ IF loc[p].type = "debit"
       THEN Goto(p, "aw_usave", [loc[p] EXCEPT !.bal = wallet[loc[p].user] + loc[p].amount])
       ELSE Goto(p, "aw_tsave", loc[p])
  /\ UNCHANGED <<wallet, txns, sessions, credits, acked, now, requests, genCalls, durable, fast, calc>>

AwUserSave(p) ==
  /\ pc[p] = "aw_usave"
  /\ wallet' = SaveUser(wallet, loc[p].user, loc[p].bal)
  /\ Goto(p, "aw_tsave", loc[p])
  /\ UNCHANGED <<txns, sessions, credits, acked, now, requests, genCalls, durable, fast, calc>>

AwTxnSave(p) ==
  /\ pc[p] = "aw_tsave"
  /\ txns' = SetStatus(txns, loc[p].ref, loc[p].status)
  /\ Finish(p, ReqOf("processAirtelMoneyWebhook", loc[p]), "ok")
  /\ UNCHANGED <<wallet, sessions, credits, acked, now, requests, genCalls, durable, fast, calc>>

\* --------------------------------------- PaymentController.withdrawFromWallet
\* withdrawFromWallet without its balance check.
WithdrawFromWallet_Unchecked(p, u, amount, method) ==
  /\ Accept(p)
  /\ IF amount <= 0
       THEN Finish(p, Req("withdrawFromWallet", u, 0, amount), "InvalidAmount")
     ELSE IF method \notin validWithdrawalMethods
       THEN Finish(p, Req("withdrawFromWallet", u, 0, amount), "InvalidMethod")
     ELSE Goto(p, "wd_saves",
               [NoLoc EXCEPT !.user = u, !.amount = amount, !.method = method,
                             !.bal = wallet[u] - amount, !.ref = Ref("withdraw_", now)])
  /\ UNCHANGED <<wallet, txns, sessions, credits, acked, now, genCalls, durable, fast, calc>>

\* req.user is the document authMiddleware loaded for this request.
WithdrawFromWallet(p, u, amount, method) ==
  /\ Accept(p)
  /\ LET bal == wallet[u] IN
       IF amount <= 0 THEN Finish(p, Req("withdrawFromWallet", u, 0, amount), "InvalidAmount")
       ELSE IF bal < amount THEN Finish(p, Req("withdrawFromWallet", u, 0, amount),
                                        "InsufficientBalance")
       ELSE IF method \notin validWithdrawalMethods THEN
           Finish(p, Req("withdrawFromWallet", u, 0, amount),
                  "InvalidMethod")
       ELSE Goto(p, "wd_saves",
                 [NoLoc EXCEPT !.user = u, !.amount = amount, !.method = method,
                               !.bal = bal - amount, !.ref = Ref("withdraw_", now)])
  /\ UNCHANGED <<wallet, txns, sessions, credits, acked, now, genCalls, durable, fast, calc>>

\* Promise.all([transaction.save(), user.save()]): the two saves land in
\* either order; the handler answers once both have settled.
WdTxnSave(p) ==
  /\ pc[p] = "wd_saves" /\ ~loc[p].tdone
  /\ LET t == [user |-> loc[p].user, amount |-> loc[p].amount, type |-> "credit",
               status |-> "pending", method |-> loc[p].method, ref |-> loc[p].ref]
         failed == loc[p].failed \/ SaveOutcome(txns, t) # "ok" IN
       /\ txns' = InsertTransaction(txns, t)
       /\ IF loc[p].sdone THEN Finish(p, ReqOf("withdrawFromWallet", loc[p]),
                                      SettledResponse(failed))
          ELSE Goto(p, "wd_saves", [loc[p] EXCEPT !.tdone = TRUE, !.failed = failed])
  /\ UNCHANGED <<wallet, sessions, credits, acked, now, requests, genCalls, durable, fast, calc>>

WdUserSave(p) ==
  /\ pc[p] = "wd_saves" /\ ~loc[p].sdone
  /\ LET failed == loc[p].failed \/ ~ValidBalance(loc[p].bal) IN
       /\ wallet' = SaveUser(wallet, loc[p].user, loc[p].bal)
       /\ IF loc[p].tdone THEN Finish(p, ReqOf("withdrawFromWallet", loc[p]),
                                      SettledResponse(failed))
          ELSE Goto(p, "wd_saves", [loc[p] EXCEPT !.sdone = TRUE, !.failed = failed])
  /\ UNCHANGED <<txns, sessions, credits, acked, now, requests, genCalls, durable, fast, calc>>

\* -------------------------------------------------------------- the clock
Tick ==
  /\ now < MaxTime
  /\ now' = now + 1
  /\ resp' = NoResp
  /\ UNCHANGED <<wallet, txns, sessions, credits, acked, pc, loc, requests, genCalls, durable, fast, calc>>

\* ------------------------------------------------- the payment subsystem
KnownRefs == {t.ref : t \in txns} \cup {Ref("FLW_REF", 0)}

InitPay ==
  /\ wallet = [u \in Users |-> InitialBalance]
  /\ txns = {}
  /\ sessions = <<>>
  /\ credits = <<>>
  /\ acked = <<>>
  /\ now = 0
  /\ pc = [p \in Procs |-> "idle"]
  /\ loc = [p \in Procs |-> NoLoc]
  /\ resp = NoResp
  /\ requests = 0
  /\ genCalls = 0
  /\ durable = <<>>
  /\ fast = {}
  /\ calc = NoCalc

NextPay ==
  \/ \E p \in Procs, u \in Users, a \in PayAmountInputs, m \in PayMethodInputs :
       InitializePayment(p, u, a, m)
  \/ \E p \in Procs, u \in Users, r \in KnownRefs : VerifyPayment(p, u, r)
  \/ \E p \in Procs : VpUser(p)
  \/ \E p \in Procs : VpUserSave(p)
  \/ \E p \in Procs : VpTxnSave(p)
  \/ \E p \in Procs : VpTxnSaveError(p)
  \/ \E p \in Procs, r \in KnownRefs, s \in WebhookStatusInputs,
        g \in WebhookGatewayInputs, sig \in BOOLEAN : PaymentWebhook(p, r, s, g, sig)
  \/ \E p \in Procs : WhUser(p)
  \/ \E p \in Procs : WhUserSave(p)
  \/ \E p \in Procs : WhTxnSave(p)
  \/ \E p \in Procs : WhTxnSaveError(p)
  \/ \E p \in Procs, r \in KnownRefs, s \in AirtelStatusInputs :
       ProcessAirtelMoneyWebhook(p, r, s)
  \/ \E p \in Procs : AwUser(p)
  \/ \E p \in Procs : AwUserSave(p)
  \/ \E p \in Procs : AwTxnSave(p)
  \/ \E p \in Procs, u \in Users, a \in WithdrawAmountInputs, m \in WithdrawMethodInputs :
       WithdrawFromWallet(p, u, a, m)
  \/ \E p \in Procs : WdTxnSave(p)
  \/ \E p \in Procs : WdUserSave(p)
  \/ Tick

SpecPay == InitPay /\ [][NextPay]_vars

\* ------------------------------------------------------ the quiz sessions
SessionIds == 1 .. Len(sessions)
SidInputs  == 1 .. MaxSessions

\* What AIService.generateQuestions can return: NumQuestions questions, of
\* which the session machine reads the correctAnswer.
QuestionSets == [1 .. NumQuestions -> [question : {"text"}, correctAnswer : CorrectAnswers,
                                       explanation : {"why"}]]

\* The assignment replacing the stored array by one that holds this answer only.
SetAnswer_Replace(answers, questionIndex, answer) ==
  [i \in 1 .. questionIndex + 1 |-> IF i = questionIndex + 1 THEN answer ELSE ""]

\* session.userAnswers[questionIndex] = answer on a Mongoose array: indices
\* between the old length and questionIndex are filled with null ("").
SetAnswer(answers, questionIndex, answer) ==
  [i \in 1 .. (IF questionIndex + 1 > Len(answers) THEN questionIndex + 1 ELSE Len(answers)) |->
     IF i = questionIndex + 1 THEN answer
     ELSE IF i <= Len(answers) THEN answers[i] ELSE ""]

AnswerAt(answers, i) == IF i <= Len(answers) THEN answers[i] ELSE ""

\* The score loop of completeQuiz.
RECURSIVE CountCorrect(_, _, _)
CountCorrect(questions, answers, i) ==
  IF i > Len(questions) THEN 0
  ELSE (IF AnswerAt(answers, i) = questions[i].correctAnswer THEN 1 ELSE 0)
       + CountCorrect(questions, answers, i + 1)

Score(session) == CountCorrect(session.questions, session.userAnswers, 1)

Reward(score) == score * RewardRate

\* Slots that are creating a session right now.
Starting == {p \in Procs : pc[p] \in {"sq_find", "sq_gen", "sq_save"}}

\* ------------------------------------------------ QuizController.startQuiz
\* authMiddleware loads req.user; input validation; the balance check.
StartQuizWithin(limit, p, u, category, difficulty, ref) ==
  /\ Accept(p)
  /\ Len(sessions) + Cardinality(Starting) < limit
  /\ IF category \notin validCategories \/ difficulty \notin validDifficulties
       THEN Finish(p, Req("startQuiz", u, 0, 0), "InvalidInput")
     ELSE IF wallet[u] < QuizFee THEN Finish(p, Req("startQuiz", u, 0, 0),
                                             "InsufficientBalance")
     ELSE Goto(p, "sq_find", [NoLoc EXCEPT !.user = u, !.bal = wallet[u], !.ref = ref,
                                           !.category = category,
                                           !.difficulty = difficulty])
  /\ UNCHANGED <<wallet, txns, sessions, credits, acked, now, genCalls, durable, fast, calc>>

StartQuiz(p, u, category, difficulty, ref) ==
  StartQuizWithin(MaxSessions, p, u, category, difficulty, ref)

\* The payment lookup without its status filter.
PaymentVerified_AnyStatus(ledger, u, ref) ==
  \E t \in ledger : t.ref = ref /\ t.user = u

\* QuizService.startQuiz: Transaction.findOne({paymentReference, user, status})
PaymentVerified(ledger, u, ref) ==
  \E t \in ledger : t.ref = ref /\ t.user = u /\ t.status = "completed"

SqFind(p) ==
  /\ pc[p] = "sq_find"
  /\ IF PaymentVerified(txns, loc[p].user, loc[p].ref)
       THEN Goto(p, "sq_gen", loc[p])
       ELSE Finish(p, ReqOf("startQuiz", loc[p]), "PaymentNotVerified")
  /\ UNCHANGED <<wallet, txns, sessions, credits, acked, now, requests, genCalls, durable, fast, calc>>

\* generateQuestions(category, difficulty = 'medium', count = 10)
DefaultDifficulty == "medium"
DefaultCount      == 10

\* The arguments of this.aiService.generateQuestions(category).
GenerateArgs(category) ==
  [category |-> category, difficulty |-> DefaultDifficulty, count |-> DefaultCount]

\* this.aiService.generateQuestions(category): a question set, or it throws.
SqGenerate(p) ==
  /\ pc[p] = "sq_gen"
  /\ genCalls' = genCalls + 1
  /\ \/ \E qs \in QuestionSets : Goto(p, "sq_save", [loc[p] EXCEPT !.questions = qs])
     \/ Finish(p, ReqOf("startQuiz", loc[p]), "GenerationFailed")
  /\ UNCHANGED <<wallet, txns, sessions, credits, acked, now, requests, durable, fast, calc>>

\* The session with the requested count as its totalQuestions.
NewSession_RequestedTotal(u, qs, ref, t) ==
  [user |-> u, questions |-> qs, userAnswers |-> <<>>, score |-> 0,
   totalQuestions |-> DefaultCount, timeStarted |-> t, timeCompleted |-> -1,
   status |-> "active", paymentReference |-> ref, rewardEarned |-> 0,
   difficulty |-> DefaultDifficulty]

NewSession(u, qs, ref, t) ==
  [user |-> u, questions |-> qs, userAnswers |-> <<>>, score |-> 0,
   totalQuestions |-> Len(qs), timeStarted |-> t, timeCompleted |-> -1,
   status |-> "active", paymentReference |-> ref, rewardEarned |-> 0,
   difficulty |-> DefaultDifficulty]

\* new QuizSession({...}); quizSession.save()
SqSessionSave(p) ==
  /\ pc[p] = "sq_save"
  /\ sessions' = Append(sessions, NewSession(loc[p].user, loc[p].questions, loc[p].ref, now))
  /\ credits' = Append(credits, <<>>)
  /\ acked' = Append(acked, [i \in 0 .. NumQuestions - 1 |-> ""])
  /\ Goto(p, "sq_debit", [loc[p] EXCEPT !.sid = Len(sessions) + 1, !.questions = <<>>,
                                        !.category = "", !.difficulty = ""])
  /\ UNCHANGED <<wallet, txns, now, requests, genCalls, durable, fast, calc>>

\* user.walletBalance -= 1.00; user.save()
SqDebit(p) ==
  /\ pc[p] = "sq_debit"
  /\ wallet' = SaveUser(wallet, loc[p].user, loc[p].bal - QuizFee)
  /\ IF ValidBalance(loc[p].bal - QuizFee)
       THEN Goto(p, "sq_fee", loc[p])
       ELSE Finish(p, ReqOf("startQuiz", loc[p]), "ServerError")
  /\ UNCHANGED <<txns, sessions, credits, acked, now, requests, genCalls, durable, fast, calc>>

FeeTransaction(u, sid) ==
  [user |-> u, amount |-> QuizFee, type |-> "debit", status |-> "completed",
   method |-> "system", ref |-> Ref("quiz_fee_", sid)]

\* The session as the response of startQuiz shows it.
StartView(sid, quizSession) ==
  [id |-> sid,
   difficulty |-> quizSession.difficulty,
   totalQuestions |-> quizSession.totalQuestions,
   timeStarted |-> quizSession.timeStarted,
   status |-> quizSession.status,
   questions |-> [index \in 1 .. Len(quizSession.questions) |->
                    [question |-> quizSession.questions[index].question]]]

\* feeTransaction.save(), then the response
SqFeeSave(p) ==
  /\ pc[p] = "sq_fee"
  /\ LET t == FeeTransaction(loc[p].user, loc[p].sid) IN
       /\ txns' = InsertTransaction(txns, t)
       /\ IF SaveOutcome(txns, t) = "ok"
            THEN FinishWith(p, ReqOf("startQuiz", loc[p]), "ok",
                            StartView(loc[p].sid, sessions[loc[p].sid]))
            ELSE Finish(p, ReqOf("startQuiz", loc[p]), "ServerError")
  /\ UNCHANGED <<wallet, sessions, credits, acked, now, requests, genCalls, durable, fast, calc>>

\* --------------------- QuizController.submitAnswer, QuizService.submitAnswer
\* The result carrying the correct answers of all the session's questions.
SubmitResult_WithAnswerKey(questions, questionIndex, answer) ==
  LET question == questions[questionIndex + 1] IN
    [isCorrect |-> answer = question.correctAnswer,
     correctAnswer |-> [i \in DOMAIN questions |-> questions[i].correctAnswer],
     explanation |-> question.explanation,
     nextQuestionIndex |-> questionIndex + 1]

\* What submitAnswer answers: the verdict on the submitted answer and the
\* correct answer and explanation of the question at questionIndex.
SubmitResult(questions, questionIndex, answer) ==
  LET question == questions[questionIndex + 1] IN
    [isCorrect |-> answer = question.correctAnswer,
     correctAnswer |-> question.correctAnswer,
     explanation |-> question.explanation,
     nextQuestionIndex |-> questionIndex + 1]

\* A submitAnswer request as the response log names it.
SubmitReq(u, sid, questionIndex, answer) ==
  [op |-> "submitAnswer", user |-> u, sid |-> sid, amount |-> 0,
   idx |-> questionIndex, ans |-> answer]

\* submitAnswer without the check that a question exists at questionIndex.
SubmitAnswer_NoRangeCheck(p, u, sid, questionIndex, answer) ==
  /\ Accept(p)
  /\ IF questionIndex < 0
       THEN Finish(p, SubmitReq(u, sid, questionIndex, answer), "InvalidQuestionIndex")
     ELSE IF answer \notin AnswerLabels
       THEN Finish(p, SubmitReq(u, sid, questionIndex, answer), "InvalidAnswer")
     ELSE IF sid \notin SessionIds
       THEN Finish(p, SubmitReq(u, sid, questionIndex, answer), "SessionNotFound")
     ELSE IF sessions[sid].status # "active"
       THEN Finish(p, SubmitReq(u, sid, questionIndex, answer), "SessionNotActive")
     ELSE Goto(p, "sa_save", [NoLoc EXCEPT !.user = u, !.sid = sid, !.idx = questionIndex,
                                           !.ans = answer,
                                           !.questions = sessions[sid].questions])
  /\ UNCHANGED <<wallet, txns, sessions, credits, acked, now, genCalls, durable, fast, calc>>

\* validateAnswerInput, findById, the status check, the lookup of the question.
SubmitAnswer(p, u, sid, questionIndex, answer) ==
  /\ Accept(p)
  /\ IF questionIndex < 0
       THEN Finish(p, SubmitReq(u, sid, questionIndex, answer), "InvalidQuestionIndex")
     ELSE IF answer \notin AnswerLabels
       THEN Finish(p, SubmitReq(u, sid, questionIndex, answer), "InvalidAnswer")
     ELSE IF sid \notin SessionIds
       THEN Finish(p, SubmitReq(u, sid, questionIndex, answer), "SessionNotFound")
     ELSE IF sessions[sid].status # "active"
       THEN Finish(p, SubmitReq(u, sid, questionIndex, answer), "SessionNotActive")
     ELSE IF questionIndex + 1 > Len(sessions[sid].questions)
       THEN Finish(p, SubmitReq(u, sid, questionIndex, answer), "InvalidQuestionIndex")
     ELSE Goto(p, "sa_save", [NoLoc EXCEPT !.user = u, !.sid = sid, !.idx = questionIndex,
                                           !.ans = answer,
                                           !.questions = sessions[sid].questions])
  /\ UNCHANGED <<wallet, txns, sessions, credits, acked, now, genCalls, durable, fast, calc>>

\* session.userAnswers[questionIndex] = answer; session.save()
SaSave(p) ==
  /\ pc[p] = "sa_save"
  /\ sessions' = [sessions EXCEPT ![loc[p].sid].userAnswers =
                    SetAnswer(@, loc[p].idx, loc[p].ans)]
  /\ acked' = [acked EXCEPT ![loc[p].sid][loc[p].idx] = loc[p].ans]
  /\ FinishWith(p, SubmitReq(loc[p].user, loc[p].sid, loc[p].idx, loc[p].ans), "ok",
                SubmitResult(loc[p].questions, loc[p].idx, loc[p].ans))
  /\ UNCHANGED <<wallet, txns, credits, now, requests, genCalls, durable, fast, calc>>

\* ------------------------------------------- QuizController.getQuizSession
\* The read view built without looking at the session's status.
SanitizeQuizSession_Unconditional(sid, quizSession) ==
  [id |-> sid,
   difficulty |-> quizSession.difficulty,
   totalQuestions |-> quizSession.totalQuestions,
   currentQuestion |-> Len(quizSession.userAnswers),
   score |-> quizSession.score,
   status |-> quizSession.status,
   timeStarted |-> quizSession.timeStarted,
   timeCompleted |-> quizSession.timeCompleted,
   rewardEarned |-> quizSession.rewardEarned,
   questions |->
     [index \in 1 .. Len(quizSession.questions) |->
        LET q == quizSession.questions[index] IN
          [question |-> q.question,
           userAnswer |-> AnswerAt(quizSession.userAnswers, index),
           isAnswered |-> index - 1 < Len(quizSession.userAnswers),
           correctAnswer |-> q.correctAnswer,
           explanation |-> q.explanation,
           isCorrect |-> AnswerAt(quizSession.userAnswers, index) = q.correctAnswer]]]

\* The read view of a session: correctAnswer, explanation and isCorrect are
\* fields of a question of the view only when the session is completed.
SanitizeQuizSession(sid, quizSession) ==
  [id |-> sid,
   difficulty |-> quizSession.difficulty,
   totalQuestions |-> quizSession.totalQuestions,
   currentQuestion |-> Len(quizSession.userAnswers),
   score |-> quizSession.score,
   status |-> quizSession.status,
   timeStarted |-> quizSession.timeStarted,
   timeCompleted |-> quizSession.timeCompleted,
   rewardEarned |-> quizSession.rewardEarned,
   questions |->
     [index \in 1 .. Len(quizSession.questions) |->
        LET q == quizSession.questions[index]
            shown == [question |-> q.question,
                      userAnswer |-> AnswerAt(quizSession.userAnswers, index),
                      isAnswered |-> index - 1 < Len(quizSession.userAnswers)]
        IN IF quizSession.status = "completed"
             THEN [question |-> shown.question, userAnswer |-> shown.userAnswer,
                   isAnswered |-> shown.isAnswered,
                   correctAnswer |-> q.correctAnswer,
                   explanation |-> q.explanation,
                   isCorrect |-> AnswerAt(quizSession.userAnswers, index) = q.correctAnswer]
             ELSE shown]]

\* findOne({_id: sessionId, user: user._id}), then the sanitized session.
GetQuizSession(p, u, sid) ==
  /\ Accept(p)
  /\ IF sid \notin SessionIds \/ (sid \in SessionIds /\ sessions[sid].user # u)
       THEN Finish(p, Req("getQuizSession", u, sid, 0), "SessionNotFound")
       ELSE FinishWith(p, Req("getQuizSession", u, sid, 0), "ok",
                       SanitizeQuizSession(sid, sessions[sid]))
  /\ UNCHANGED <<wallet, txns, sessions, credits, acked, now, genCalls, durable, fast, calc>>

\* ----------------------------------------------- QuizService.completeQuiz
\* completeQuiz finding the session by its _id alone.
CompleteQuiz_AnyUser(p, u, sid) ==
  /\ Accept(p)
  /\ IF sid \notin SessionIds
       THEN Finish(p, Req("completeQuiz", u, sid, 0), "SessionNotFound")
       ELSE Goto(p, "cq_inc", [NoLoc EXCEPT !.user = u, !.sid = sid, !.t = now,
                                 !.status = sessions[sid].status,
                                 !.score = Score(sessions[sid]),
                                 !.reward = Reward(Score(sessions[sid]))])
  /\ UNCHANGED <<wallet, txns, sessions, credits, acked, now, genCalls, durable, fast, calc>>

\* findOne({_id, user}), the score loop, the assignments to the loaded session.
CompleteQuiz(p, u, sid) ==
  /\ Accept(p)
  /\ IF sid \notin SessionIds \/ (sid \in SessionIds /\ sessions[sid].user # u)
       THEN Finish(p, Req("completeQuiz", u, sid, 0), "SessionNotFound")
       ELSE Goto(p, "cq_inc", [NoLoc EXCEPT !.user = u, !.sid = sid, !.t = now,
                                 !.status = sessions[sid].status,
                                 !.score = Score(sessions[sid]),
                                 !.reward = Reward(Score(sessions[sid]))])
  /\ UNCHANGED <<wallet, txns, sessions, credits, acked, now, genCalls, durable, fast, calc>>

\* User.findByIdAndUpdate(userId, {$inc: {walletBalance: reward}})
CqIncWallet(p) ==
  /\ pc[p] = "cq_inc"
  /\ wallet' = [wallet EXCEPT ![loc[p].user] = @ + loc[p].reward]
  /\ credits' = [credits EXCEPT ![loc[p].sid] = Append(@, loc[p].reward)]
  /\ Goto(p, "cq_saves", loc[p])
  /\ UNCHANGED <<txns, sessions, acked, now, requests, genCalls, durable, fast, calc>>

RewardTransaction(u, sid, reward) ==
  [user |-> u, amount |-> reward, type |-> "credit", status |-> "completed",
   method |-> "system", ref |-> Ref("reward_", sid)]

\* Promise.all([session.save(), rewardTransaction.save()]): session.save()
CqSessionSave(p) ==
  /\ pc[p] = "cq_saves" /\ ~loc[p].sdone
  /\ sessions' = [sessions EXCEPT ![loc[p].sid] =
                    [@ EXCEPT !.score = loc[p].score, !.status = "completed",
                              !.timeCompleted = loc[p].t,
                              !.rewardEarned = loc[p].reward]]
  /\ IF loc[p].tdone THEN Finish(p, ReqOf("completeQuiz", loc[p]),
                                 SettledResponse(loc[p].failed))
     ELSE Goto(p, "cq_saves", [loc[p] EXCEPT !.sdone = TRUE])
  /\ UNCHANGED <<wallet, txns, credits, acked, now, requests, genCalls, durable, fast, calc>>

\* Promise.all([session.save(), rewardTransaction.save()]): rewardTransaction.save()
CqTxnSave(p) ==
  /\ pc[p] = "cq_saves" /\ ~loc[p].tdone
  /\ LET t == RewardTransaction(loc[p].user, loc[p].sid, loc[p].reward)
         failed == loc[p].failed \/ SaveOutcome(txns, t) # "ok" IN
       /\ txns' = InsertTransaction(txns, t)
       /\ IF loc[p].sdone THEN Finish(p, ReqOf("completeQuiz", loc[p]), SettledResponse(failed))
          ELSE Goto(p, "cq_saves", [loc[p] EXCEPT !.tdone = TRUE, !.failed = failed])
  /\ UNCHANGED <<wallet, sessions, credits, acked, now, requests, genCalls, durable, fast, calc>>

\* ------------------------------------------------- the abandonment sweep
AbandonSweep(sid) ==
  /\ sid \in SessionIds
  /\ sessions[sid].status = "active"
  /\ now - sessions[sid].timeStarted >= MaxSessionAge
  /\ sessions' = [sessions EXCEPT ![sid].status = "abandoned"]
  /\ resp' = NoResp
  /\ UNCHANGED <<wallet, txns, credits, acked, now, pc, loc, requests, genCalls, durable, fast, calc>>

\* --------------------------------------------------- the quiz subsystem
\* Both users have deposited and verified 2.00 (initializePayment, then
\* verifyPayment); u1 has a second deposit that is still pending.
Deposit(u, kind, status) ==
  [user |-> u, amount |-> 200, type |-> "debit", status |-> status,
   method |-> kind, ref |-> PaymentReferenceFor(kind)]

InitQuiz ==
  /\ wallet = [u \in Users |-> 200]
  /\ txns = {Deposit("u1", "flutterwave", "completed"),
             Deposit("u2", "momo", "completed"),
             Deposit("u1", "stripe", "pending")}
  /\ sessions = <<>>
  /\ credits = <<>>
  /\ acked = <<>>
  /\ now = 0
  /\ pc = [p \in Procs |-> "idle"]
  /\ loc = [p \in Procs |-> NoLoc]
  /\ resp = NoResp
  /\ requests = 0
  /\ genCalls = 0
  /\ durable = <<>>
  /\ fast = {}
  /\ calc = NoCalc

StartRefInputs == {PaymentReferenceFor(m) : m \in {"flutterwave", "stripe"}}

NextQuiz ==
  \/ \E p \in Procs, u \in Users, c \in CategoryInputs, d \in DifficultyInputs,
        r \in StartRefInputs : StartQuiz(p, u, c, d, r)
  \/ \E p \in Procs : SqFind(p)
  \/ \E p \in Procs : SqGenerate(p)
  \/ \E p \in Procs : SqSessionSave(p)
  \/ \E p \in Procs : SqDebit(p)
  \/ \E p \in Procs : SqFeeSave(p)
  \/ \E p \in Procs, u \in Users, sid \in SidInputs, i \in IndexInputs, a \in AnswerInputs :
       SubmitAnswer(p, u, sid, i, a)
  \/ \E p \in Procs : SaSave(p)
  \/ \E p \in Procs, u \in Users, sid \in SidInputs : GetQuizSession(p, u, sid)
  \/ \E p \in Procs, u \in Users, sid \in SidInputs : CompleteQuiz(p, u, sid)
  \/ \E p \in Procs : CqIncWallet(p)
  \/ \E p \in Procs : CqSessionSave(p)
  \/ \E p \in Procs : CqTxnSave(p)
  \/ \E sid \in SidInputs : AbandonSweep(sid)
  \/ Tick

SpecQuiz == InitQuiz /\ [][NextQuiz]_vars

\* The start of sessions alone, with room for a second session.
MaxStarts == 2

StartQuizAgain(p, u, category, difficulty, ref) ==
  StartQuizWithin(MaxStarts, p, u, category, difficulty, ref)

NextStart ==
  \/ \E p \in Procs, u \in Users, c \in CategoryInputs, d \in DifficultyInputs,
        r \in StartRefInputs : StartQuizAgain(p, u, c, d, r)
  \/ \E p \in Procs : SqFind(p)
  \/ \E p \in Procs : SqGenerate(p)
  \/ \E p \in Procs : SqSessionSave(p)
  \/ \E p \in Procs : SqDebit(p)
  \/ \E p \in Procs : SqFeeSave(p)

SpecStart == InitQuiz /\ [][NextStart]_vars

\* ====================================================================
\* Reward computation
\* ====================================================================
\* Reward amounts are kept in sixths of a cent, the granularity of the time
\* bonus: (timeSaved / 60) * 0.5 dollars is timeSaved * 5 sixths of a cent.
Cent               == 6
BaseUnit           == 200    \* 2.00 per question
AvgTimePerQuestion == 30     \* seconds
TimeBonusPerSecond == 5      \* 0.50 per minute saved, in sixths of a cent
StreakBonusPerWin  == 200    \* 2.00 per win in the last 24 hours

TotalInputs     == {1, 3, 10}
TimeSpentInputs == {0, 100, 150, 301, 400}
WinsInputs      == {0, 1}

\* Math.floor(totalQuestions * 2 * accuracy * 100) / 100, accuracy being
\* correct / total.  For up to 20 questions the floating-point product is the
\* exact integer, so the floor is exact.
calculateBaseReward(correct, totalQuestions) ==
  ((totalQuestions * BaseUnit * correct) \div totalQuestions) * Cent

calculateTimeBonus_Unclamped(timeSpent, totalQuestions) ==
  (totalQuestions * AvgTimePerQuestion - timeSpent) * TimeBonusPerSecond

calculateTimeBonus(timeSpent, totalQuestions) ==
  LET expectedTime == totalQuestions * AvgTimePerQuestion
  IN  IF timeSpent < expectedTime
        THEN (expectedTime - timeSpent) * TimeBonusPerSecond
        ELSE 0

calculateStreakBonus(recentWins) == recentWins * StreakBonusPerWin * Cent

\* RewardService.calculateReward: the sum, as it is handed to distributeReward.
calculateReward(correct, totalQuestions, timeSpent, recentWins) ==
  calculateBaseReward(correct, totalQuestions)
    + calculateTimeBonus(timeSpent, totalQuestions)
    + calculateStreakBonus(recentWins)

\* The amount an operation credits for the given inputs.
CreditedBy(op, correct, totalQuestions, timeSpent, recentWins) ==
  IF op = "completeQuiz"
    THEN Reward(correct) * Cent
    ELSE calculateReward(correct, totalQuestions, timeSpent, recentWins)

\* QuizService.completeQuiz computes the reward of a session.
RewardByCompleteQuiz ==
  /\ calc.op = "none"
  /\ calc' = [calc EXCEPT !.op = "completeQuiz",
                          !.credited = CreditedBy("completeQuiz", calc.correct, calc.total,
                                                  calc.timeSpent, calc.wins)]
  /\ UNCHANGED <<wallet, txns, sessions, credits, acked, now, pc, loc, resp, requests,
                 genCalls, durable, fast>>

\* RewardService.calculateReward computes the reward of a game session.
RewardByCalculateReward ==
  /\ calc.op = "none"
  /\ calc' = [calc EXCEPT !.op = "calculateReward",
                          !.credited = CreditedBy("calculateReward", calc.correct,
                                                  calc.total, calc.timeSpent, calc.wins)]
  /\ UNCHANGED <<wallet, txns, sessions, credits, acked, now, pc, loc, resp, requests,
                 genCalls, durable, fast>>

InitReward ==
  /\ wallet = [u \in Users |-> InitialBalance]
  /\ txns = {}
  /\ sessions = <<>>
  /\ credits = <<>>
  /\ acked = <<>>
  /\ now = 0
  /\ pc = [p \in Procs |-> "idle"]
  /\ loc = [p \in Procs |-> NoLoc]
  /\ resp = NoResp
  /\ requests = 0
  /\ genCalls = 0
  /\ durable = <<>>
  /\ fast = {}
  /\ \E total \in TotalInputs, timeSpent \in TimeSpentInputs, wins \in WinsInputs :
     \E correct \in 0 .. total :
       calc = [op |-> "none", total |-> total, correct |-> correct,
                  timeSpent |-> timeSpent, wins |-> wins, credited |-> 0]

NextReward ==
  \/ RewardByCompleteQuiz
  \/ RewardByCalculateReward

SpecReward == InitReward /\ [][NextReward]_vars

\* ====================================================================
\* The question cache: AIService.generateQuestions over the AIQuestion
\* collection (durable tier) and Redis (fast tier)
\* ====================================================================
\* Time is counted in hours: Math.floor(Date.now() / 3600000) is `now` itself.
MaxGenCalls        == 3      \* bound: calls of generateQuestions in a run
DurableTtl         == 24     \* expiresAt is 24 hours after creation
FastTtl            == 1      \* setex(key, 3600, value)
MaxQuestionsPerSet == 20     \* the schema's upper limit of a question set

GoodOptions  == <<"w", "x", "y", "z">>
OptionInputs == {GoodOptions, <<"w", "x", "y">>, <<"w", "", "y", "z">>}

GenQuestion(options, answer) ==
  [question |-> "text", options |-> options, correctAnswer |-> answer,
   explanation |-> "why"]

GoodQuestion == GenQuestion(GoodOptions, "A")

\* What the gateway's JSON array may hold in its first place.
FirstQuestionInputs ==
  {GenQuestion(GoodOptions, a) : a \in {"A", "b", "E"}}
    \cup {GenQuestion(o, "A") : o \in OptionInputs}

GeneratedLengthInputs == {1, 2, MaxQuestionsPerSet + 1}

\* A set of n questions whose first is q.
QuestionsOf(q, n) == [i \in 1 .. n |-> IF i = 1 THEN q ELSE GoodQuestion]

\* What chat.completions.create yields: it throws, the message has no content,
\* the content is no JSON array, or the content is an array of questions.
GatewayInputs ==
  [kind : {"throws", "no_content", "malformed"}, questions : {<<>>}]
    \cup [kind : {"array"},
          questions : {<<>>} \cup {QuestionsOf(q, 1) : q \in FirstQuestionInputs}
                             \cup {QuestionsOf(GoodQuestion, n) :
                                     n \in GeneratedLengthInputs}]

CacheCategoryInputs   == {"science"}
CacheDifficultyInputs == {"medium", "hard"}
CountInputs           == {1, 2}

\* `ai_questions:${category}:${difficulty}:${hour bucket}`
CacheKey(category, difficulty, t) == <<"ai_questions", category, difficulty, t>>
NoKey == <<>>
NoDate == -1000

\* `ai_questions:${category}:${difficulty}:${count}`
redisCacheKey(category, difficulty, count) == <<"ai_questions", category, difficulty, count>>

\* uppercase: true on correctAnswer
Uppercase(a) ==
  CASE a = "a" -> "A" [] a = "b" -> "B" [] a = "c" -> "C" [] a = "d" -> "D"
    [] OTHER -> a

\* The question as the sub-schema casts it.
CastQuestion(q) == [q EXCEPT !.correctAnswer = Uppercase(q.correctAnswer)]
CastQuestions(qs) == [i \in DOMAIN qs |-> CastQuestion(qs[i])]

\* questionSchema: four non-empty options, correctAnswer one of A, B, C, D
ValidQuestion(q) ==
  /\ Len(q.options) = 4
  /\ \A i \in DOMAIN q.options : q.options[i] # ""
  /\ q.correctAnswer \in AnswerLabels

\* aiQuestionSchema.questions: between 1 and 20 valid questions
ValidQuestionSet(qs) ==
  /\ Len(qs) > 0
  /\ Len(qs) <= MaxQuestionsPerSet
  /\ \A i \in DOMAIN qs : ValidQuestion(qs[i])

\* new AIQuestion({category, difficulty, questions, ...}): cacheKey and
\* expiresAt are not given and have no default.
NewAIQuestion(questions, category, difficulty) ==
  [category |-> category, difficulty |-> difficulty,
   questions |-> CastQuestions(questions), cacheKey |-> NoKey, isActive |-> TRUE,
   usageCount |-> 0, createdAt |-> NoDate, expiresAt |-> NoDate]

\* A save that validates nothing.
ValidAIQuestion_Skipped(doc) == TRUE

\* The validation of save(): the enums, the question set and the required paths.
ValidAIQuestion(doc) ==
  /\ doc.category \in validCategories
  /\ doc.difficulty \in validDifficulties
  /\ ValidQuestionSet(doc.questions)
  /\ doc.cacheKey # NoKey
  /\ doc.expiresAt # NoDate

\* The pre('save') hook of a new document, run at time t.
PreSave(doc, t) ==
  [doc EXCEPT !.cacheKey = CacheKey(doc.category, doc.difficulty, t),
              !.createdAt = t,
              !.expiresAt = t + DurableTtl]

HasCacheKey(coll, key) == \E i \in DOMAIN coll : coll[i].cacheKey = key

\* aiQuestion.save(): Mongoose validates the document in its own pre('save')
\* hook, which runs before the hooks of the schema; the hooks of the schema
\* then fill cacheKey and expiresAt, and the insert meets the unique index.
AIQuestionSaveOutcome(coll, doc, t) ==
  IF ~ValidAIQuestion(doc) THEN "ValidationError"
  ELSE IF HasCacheKey(coll, PreSave(doc, t).cacheKey) THEN "DuplicateKey"
  ELSE "ok"

\* The lookup without its isActive filter.
LatestActive_AnyStatus(coll, category, difficulty) ==
  LET S == {i \in DOMAIN coll : /\ coll[i].category = category
                                /\ coll[i].difficulty = difficulty}
  IN  IF S = {} THEN 0
      ELSE CHOOSE i \in S : \A j \in S : coll[j].createdAt <= coll[i].createdAt

\* findOne({category, difficulty, isActive: true}).sort({createdAt: -1}):
\* the place of the newest such document, 0 if there is none.
LatestActive(coll, category, difficulty) ==
  LET S == {i \in DOMAIN coll : /\ coll[i].category = category
                                /\ coll[i].difficulty = difficulty
                                /\ coll[i].isActive}
  IN  IF S = {} THEN 0
      ELSE CHOOSE i \in S : \A j \in S : coll[j].createdAt <= coll[i].createdAt

\* JSON.stringify(questions) and JSON.parse of it.
Stringify(qs) == [json |-> qs]
Parses(v) == "json" \in DOMAIN v
Parse(v) == v.json

\* client.get(key): the value of a key that has not expired, if any.
FastHits(key) == {e \in fast : e.key = key /\ e.expires > now}

\* The request of a generateQuestions call as the response log names it.
GenReq(l) == [op |-> "generateQuestions", user |-> "none", sid |-> 0,
              amount |-> l.amount, category |-> l.category,
              difficulty |-> l.difficulty]

Served(qs, source) == [questions |-> qs, source |-> source]

\* cachedQuestions.slice(0, count), without the slice.
ServeCached_NoSlice(qs, count) == qs

\* cachedQuestions.slice(0, count)
ServeCached(qs, count) == SubSeq(qs, 1, count)

\* logger.error(..., error): the error a catch block logs before it throws its own.
Logged(err) == [logged |-> err]

\* What a caught error of the generation becomes: nothing is thrown on.
CaughtError_Swallowed(err) == "ok"

\* catch (error) { throw new Error('Failed to generate questions') }
CaughtError(err) == "GenerationFailed"

\* AIService.generateQuestions(category, difficulty, count) is called.
GenerateQuestions(p, category, difficulty, count) ==
  /\ Accept(p)
  /\ genCalls < MaxGenCalls
  /\ genCalls' = genCalls + 1
  /\ Goto(p, "gq_find", [NoLoc EXCEPT !.category = category, !.difficulty = difficulty,
                                      !.amount = count])
  /\ UNCHANGED <<wallet, txns, sessions, credits, acked, now, durable, fast, calc>>

\* getCachedQuestions: the findOne
GqFind(p) ==
  /\ pc[p] = "gq_find"
  /\ LET i == LatestActive(durable, loc[p].category, loc[p].difficulty)
     IN  IF i = 0
           THEN Goto(p, "gq_fast", loc[p])
           ELSE Goto(p, "gq_usage", [loc[p] EXCEPT !.questions = durable[i].questions,
                                                  !.cacheKey = durable[i].cacheKey])
  /\ UNCHANGED <<wallet, txns, sessions, credits, acked, now, requests, genCalls, durable, fast, calc>>

\* getCachedQuestions: the findOne fails, the catch returns null.
GqFindError(p) ==
  /\ pc[p] = "gq_find"
  /\ Goto(p, "gq_fast", [loc[p] EXCEPT !.failed = TRUE])
  /\ UNCHANGED <<wallet, txns, sessions, credits, acked, now, requests, genCalls, durable, fast, calc>>

\* getCachedQuestions: incrementUsage(cached.cacheKey), then generateQuestions
\* serves the cached questions if they are at least `count`.
GqUsage(p) ==
  /\ pc[p] = "gq_usage"
  /\ durable' = [i \in DOMAIN durable |->
                   IF durable[i].cacheKey = loc[p].cacheKey
                     THEN [durable[i] EXCEPT !.usageCount = @ + 1]
                     ELSE durable[i]]
  /\ IF Len(loc[p].questions) >= loc[p].amount
       THEN FinishWith(p, GenReq(loc[p]), "ok",
                       Served(ServeCached(loc[p].questions, loc[p].amount), "durable"))
       ELSE Goto(p, "gq_fast", [loc[p] EXCEPT !.questions = <<>>, !.cacheKey = NoKey])
  /\ UNCHANGED <<wallet, txns, sessions, credits, acked, now, requests, genCalls, fast, calc>>

\* cache.get(redisCacheKey): a Redis error reads as a miss; a hit is parsed
\* outside the try block.
GqFastGet(p) ==
  /\ pc[p] = "gq_fast"
  /\ LET hits == FastHits(redisCacheKey(loc[p].category, loc[p].difficulty, loc[p].amount))
     IN  \/ /\ hits # {}
            /\ \E e \in hits :
                 IF Parses(e.value)
                   THEN FinishWith(p, GenReq(loc[p]), "ok", Served(Parse(e.value), "fast"))
                   ELSE Finish(p, GenReq(loc[p]), "SyntaxError")
         \/ Goto(p, "gq_openai", loc[p])
  /\ UNCHANGED <<wallet, txns, sessions, credits, acked, now, requests, genCalls, durable, fast, calc>>

\* openai.chat.completions.create and parseAIResponse(content)
GqOpenAI(p) ==
  /\ pc[p] = "gq_openai"
  /\ \E g \in GatewayInputs :
       IF g.kind = "array"
         THEN Goto(p, "gq_store", [loc[p] EXCEPT !.questions = g.questions])
         ELSE FinishWith(p, GenReq(loc[p]), CaughtError(g.kind), Logged(g.kind))
  /\ UNCHANGED <<wallet, txns, sessions, credits, acked, now, requests, genCalls, durable, fast, calc>>

\* cacheQuestions(questions, ...) and, if it returns, cache.set(redisCacheKey,
\* JSON.stringify(questions), 3600) and the return of the questions.
GqCacheQuestions(p) ==
  /\ pc[p] = "gq_store"
  /\ LET doc == NewAIQuestion(loc[p].questions, loc[p].category, loc[p].difficulty)
     IN  IF AIQuestionSaveOutcome(durable, doc, now) = "ok"
           THEN /\ durable' = Append(durable, PreSave(doc, now))
                /\ fast' = {e \in fast : e.key # redisCacheKey(loc[p].category,
                                                              loc[p].difficulty,
                                                              loc[p].amount)}
                             \cup {[key |-> redisCacheKey(loc[p].category,
                                                         loc[p].difficulty,
                                                         loc[p].amount),
                                    value |-> Stringify(loc[p].questions),
                                    expires |-> now + FastTtl]}
                /\ FinishWith(p, GenReq(loc[p]), "ok",
                              Served(loc[p].questions, "generated"))
           ELSE /\ FinishWith(p, GenReq(loc[p]),
                              CaughtError(AIQuestionSaveOutcome(durable, doc, now)),
                              Logged(AIQuestionSaveOutcome(durable, doc, now)))
                /\ UNCHANGED <<durable, fast>>
  /\ UNCHANGED <<wallet, txns, sessions, credits, acked, now, requests, genCalls, calc>>

\* AIQuestionService.invalidateCache(category, difficulty)
InvalidateCache(category, difficulty) ==
  /\ \E i \in DOMAIN durable : /\ durable[i].category = category
                               /\ durable[i].difficulty = difficulty
                               /\ durable[i].isActive
  /\ durable' = [i \in DOMAIN durable |->
                   IF durable[i].category = category /\ durable[i].difficulty = difficulty
                     THEN [durable[i] EXCEPT !.isActive = FALSE]
                     ELSE durable[i]]
  /\ resp' = NoResp
  /\ UNCHANGED <<wallet, txns, sessions, credits, acked, now, pc, loc, requests, genCalls, fast, calc>>

\* AIQuestionService.cleanupExpiredCache: the sweep
CleanupExpiredCache ==
  /\ \E i \in DOMAIN durable : durable[i].isActive /\ durable[i].expiresAt <= now
  /\ durable' = [i \in DOMAIN durable |->
                   IF durable[i].isActive /\ durable[i].expiresAt <= now
                     THEN [durable[i] EXCEPT !.isActive = FALSE]
                     ELSE durable[i]]
  /\ resp' = NoResp
  /\ UNCHANGED <<wallet, txns, sessions, credits, acked, now, pc, loc, requests, genCalls, fast, calc>>

Unexpired(doc) == doc.expiresAt > now

\* The TTL index on expiresAt: the server's monitor removes the documents
\* that have expired, some time after they did.
TtlMonitor ==
  /\ \E i \in DOMAIN durable : ~Unexpired(durable[i])
  /\ durable' = SelectSeq(durable, Unexpired)
  /\ resp' = NoResp
  /\ UNCHANGED <<wallet, txns, sessions, credits, acked, now, pc, loc, requests, genCalls, fast, calc>>

\* The collection outlives the process.  A document it holds at the start is
\* one the schema admits, with the cacheKey and expiresAt of its creation time.
StoredAt(difficulty, n, t) ==
  PreSave(NewAIQuestion(QuestionsOf(GoodQuestion, n), "science", difficulty), t)

StoredInputs ==
  {StoredAt("medium", n, t) : n \in {1, 2}, t \in {0 - DurableTtl, 1 - DurableTtl}}

InitCache ==
  /\ wallet = [u \in Users |-> InitialBalance]
  /\ txns = {}
  /\ sessions = <<>>
  /\ credits = <<>>
  /\ acked = <<>>
  /\ now = 0
  /\ pc = [p \in Procs |-> "idle"]
  /\ loc = [p \in Procs |-> NoLoc]
  /\ resp = NoResp
  /\ requests = 0
  /\ genCalls = 0
  /\ fast = {}
  /\ calc = NoCalc
  /\ \/ durable = <<>>
     \/ \E d \in StoredInputs : durable = <<d>>
     \/ \E d1, d2 \in StoredInputs : d1.createdAt < d2.createdAt /\ durable = <<d1, d2>>

NextCache ==
  \/ \E p \in Procs, c \in CacheCategoryInputs, d \in CacheDifficultyInputs,
        n \in CountInputs : GenerateQuestions(p, c, d, n)
  \/ \E p \in Procs : GqFind(p)
  \/ \E p \in Procs : GqFindError(p)
  \/ \E p \in Procs : GqUsage(p)
  \/ \E p \in Procs : GqFastGet(p)
  \/ \E p \in Procs : GqOpenAI(p)
  \/ \E p \in Procs : GqCacheQuestions(p)
  \/ \E c \in CacheCategoryInputs, d \in CacheDifficultyInputs : InvalidateCache(c, d)
  \/ CleanupExpiredCache
  \/ TtlMonitor
  \/ Tick

SpecCache == InitCache /\ [][NextCache]_vars

\* ====================================================================
\* Properties
\* ====================================================================
RECURSIVE SumSeq(_)
SumSeq(seq) == IF seq = <<>> THEN 0 ELSE Head(seq) + SumSeq(Tail(seq))

RECURSIVE SumAmounts(_)
SumAmounts(ts) ==
  IF ts = {} THEN 0
  ELSE LET t == CHOOSE x \in ts : TRUE IN t.amount + SumAmounts(ts \ {t})

\* The reward Transaction(s) of session s, under either spelling of the prefix.
RewardTxns(ledger, s) ==
  {t \in ledger : t.ref \in {Ref("REWARD_", s), Ref("reward_", s)}}

\* C1: settlement is idempotent: however often complete is invoked for a
\* session, sequentially or concurrently, the owner's wallet is increased
\* for that session at most once.
C1_SettledOnce ==
  \A s \in SessionIds :
    Cardinality({i \in DOMAIN credits[s] : credits[s][i] > 0}) <= 1

\* C2: settlement is all-or-nothing: in every reachable state the session is
\* completed iff its reward Transaction exists iff the wallet has been
\* incremented for it.
C2_AllOrNothing ==
  \A s \in SessionIds :
    LET done == sessions[s].status = "completed"
        recorded == RewardTxns(txns, s) # {}
        paid == credits[s] # <<>>
    IN (done <=> recorded) /\ (recorded <=> paid)

Deposits(u) == {t \in txns : t.user = u /\ t.type = "debit"}

C4_CreditedOncePerReference ==
  \A u \in Users : wallet[u] <= InitialBalance + SumAmounts(Deposits(u))

\* C5: every wallet decrement is applied to the balance current at that
\* moment: the withdrawal's save lowers the stored balance by exactly the
\* withdrawn amount and never below zero.
C5_DecrementOnCurrentBalance ==
  [][\A p \in Procs :
       (pc[p] = "wd_saves" /\ ~loc[p].sdone /\ (pc'[p] = "idle" \/ loc'[p].sdone)) =>
         /\ wallet'[loc[p].user] = wallet[loc[p].user] - loc[p].amount
         /\ wallet'[loc[p].user] >= 0]_vars

\* C6: a withdrawal request whose amount exceeds the user's wallet balance is
\* rejected with InsufficientBalance in the step that receives it, creates no
\* Transaction and leaves the balance unchanged; no such request goes on to
\* the saves.
C6_InsufficientBalanceRejected ==
  [][\A p \in Procs : pc[p] = "idle" =>
       /\ pc'[p] = "wd_saves" => loc'[p].amount <= wallet[loc'[p].user]
       /\ ( /\ pc'[p] = "idle" /\ resp'.proc = p
            /\ resp'.req.op = "withdrawFromWallet"
            /\ resp'.req.amount > wallet[resp'.req.user] )
          => /\ resp'.kind = "InsufficientBalance"
             /\ wallet' = wallet
             /\ txns' = txns]_vars

C6_Witness ==
  /\ resp.req.op = "withdrawFromWallet"
  /\ resp.kind = "InsufficientBalance"
  /\ wallet[resp.req.user] > 0
  /\ resp.req.amount > wallet[resp.req.user]

\* C7: completed is terminal: a completed session never changes its status,
\* score, timeCompleted or rewardEarned again.
C7_CompletedIsFinal ==
  [][\A s \in SessionIds :
       sessions[s].status = "completed" =>
         /\ sessions'[s].status = "completed"
         /\ sessions'[s].score = sessions[s].score
         /\ sessions'[s].timeCompleted = sessions[s].timeCompleted
         /\ sessions'[s].rewardEarned = sessions[s].rewardEarned]_vars

\* C8: an abandoned session never settles: while a session is abandoned no
\* step increases a wallet for it or records a reward Transaction for it.
C8_AbandonedNeverSettles ==
  [][\A s \in SessionIds :
       sessions[s].status = "abandoned" =>
         /\ SumSeq(credits'[s]) = SumSeq(credits[s])
         /\ RewardTxns(txns', s) = RewardTxns(txns, s)]_vars

\* C9: no submitAnswer write lands after a session became completed: the
\* userAnswers of a completed session never change.
C9_NoWriteAfterCompleted ==
  [][\A s \in SessionIds :
       sessions[s].status = "completed" =>
         sessions'[s].userAnswers = sessions[s].userAnswers]_vars

AckedScore(s) ==
  Cardinality({i \in 0 .. Len(sessions[s].questions) - 1 :
                 acked[s][i] = sessions[s].questions[i + 1].correctAnswer})

\* C11: the score complete stores is the number of indices whose last
\* acknowledged submitAnswer value is the correct answer, and submitAnswer
\* never changes the score.
C11_ScoreIsRederived ==
  [][\A p \in Procs :
       /\ (pc[p] = "cq_saves" /\ ~loc[p].sdone /\ (pc'[p] = "idle" \/ loc'[p].sdone)) =>
            sessions'[loc[p].sid].score = AckedScore(loc[p].sid)
       /\ (pc[p] = "sa_save" /\ pc'[p] = "idle") =>
            sessions'[loc[p].sid].score = sessions[loc[p].sid].score]_vars

\* C12: complete observes every submitAnswer write acknowledged before it was
\* invoked: the stored userAnswers hold every acknowledged answer, also after
\* concurrent submissions for different indices, and the score complete
\* computes counts all of them.
C12_CompleteSeesAcknowledged ==
  [][/\ \A s \in 1 .. Len(sessions') :
          \A i \in 0 .. Len(sessions'[s].questions) - 1 :
            AnswerAt(sessions'[s].userAnswers, i + 1) = acked'[s][i]
     /\ \A p \in Procs :
          (pc[p] = "idle" /\ pc'[p] = "cq_inc") =>
            loc'[p].score = AckedScore(loc'[p].sid)]_vars

C12_Witness ==
  \E p \in Procs :
    /\ pc[p] = "cq_inc"
    /\ loc[p].score >= 2
    /\ \A i \in 0 .. Len(sessions[loc[p].sid].questions) - 1 : acked[loc[p].sid][i] # ""

\* C13: the read view of a session (getQuizSession, and the view start
\* returns) holds no correctAnswer and no explanation for any question while
\* the session is not completed, and a correctAnswer for every question once
\* it is completed.
C13_ViewHidesAnswers ==
  (resp.kind = "ok" /\ resp.req.op \in {"getQuizSession", "startQuiz"}) =>
    \A i \in DOMAIN resp.data.questions :
      LET q == resp.data.questions[i] IN
        IF sessions[resp.req.sid].status = "completed"
          THEN "correctAnswer" \in DOMAIN q
          ELSE "correctAnswer" \notin DOMAIN q /\ "explanation" \notin DOMAIN q

C13_Witness ==
  /\ resp.kind = "ok" /\ resp.req.op = "getQuizSession"
  /\ sessions[resp.req.sid].status = "completed"
  /\ DOMAIN resp.data.questions # {}
  /\ \A i \in DOMAIN resp.data.questions :
       resp.data.questions[i].correctAnswer = sessions[resp.req.sid].questions[i].correctAnswer

\* Question sets that differ from qs at most in the correct answers of the
\* indices of session s for which no answer has been acknowledged.
SameOnAnswered(ack, qs) ==
  {qs2 \in QuestionSets :
     \A i \in DOMAIN qs :
       /\ qs2[i].question = qs[i].question
       /\ qs2[i].explanation = qs[i].explanation
       /\ ack[i - 1] # "" => qs2[i].correctAnswer = qs[i].correctAnswer}

\* C14: while a session is active, a response to the user (the submitAnswer
\* result, the read view) is the same for every session that differs only in
\* the correct answers of indices the user has not answered yet.
C14_NoDisclosureOfUnanswered ==
  [][\A p \in Procs :
       /\ ( /\ pc[p] = "sa_save" /\ pc'[p] = "idle"
            /\ sessions'[loc[p].sid].status = "active" ) =>
            \A qs2 \in SameOnAnswered(acked'[loc[p].sid], sessions'[loc[p].sid].questions) :
              resp'.data = SubmitResult(qs2, loc[p].idx, loc[p].ans)
       /\ ( /\ pc[p] = "idle" /\ resp'.proc = p /\ resp'.kind = "ok"
            /\ resp'.req.op = "getQuizSession"
            /\ sessions'[resp'.req.sid].status = "active" ) =>
            \A qs2 \in SameOnAnswered(acked'[resp'.req.sid], sessions'[resp'.req.sid].questions) :
              resp'.data = SanitizeQuizSession(resp'.req.sid,
                             [sessions'[resp'.req.sid] EXCEPT !.questions = qs2])]_vars

C14_Witness ==
  /\ resp.kind = "ok" /\ resp.req.op = "submitAnswer"
  /\ sessions[resp.req.sid].status = "active"
  /\ \E i \in DOMAIN acked[resp.req.sid] : acked[resp.req.sid][i] = ""
  /\ \E i \in DOMAIN acked[resp.req.sid] : acked[resp.req.sid][i] # ""

\* A submitAnswer request is received by slot p in this step.
SubmitReceived(p) ==
  /\ pc[p] = "idle"
  /\ requests' = requests + 1
  /\ \/ pc'[p] = "sa_save"
     \/ pc'[p] = "idle" /\ resp'.proc = p /\ resp'.req.op = "submitAnswer"

\* The questionIndex of the request is outside the questions of its session,
\* which exists and is active.
OutOfRangeOnActive(sid, questionIndex) ==
  /\ sid \in SessionIds
  /\ sessions[sid].status = "active"
  /\ (questionIndex < 0 \/ questionIndex >= sessions[sid].totalQuestions)

C16_CompleteOwnSessionOnly ==
  [][\A p \in Procs :
       /\ (pc[p] = "idle" /\ pc'[p] = "cq_inc") =>
            /\ loc'[p].sid \in SessionIds
            /\ sessions[loc'[p].sid].user = loc'[p].user
       /\ ( /\ pc[p] = "idle" /\ pc'[p] = "idle" /\ requests' = requests + 1
            /\ resp'.proc = p /\ resp'.req.op = "completeQuiz"
            /\ \/ resp'.req.sid \notin SessionIds
               \/ sessions[resp'.req.sid].user # resp'.req.user ) =>
            /\ resp'.kind = "SessionNotFound"
            /\ UNCHANGED <<sessions, wallet, txns>>
       /\ (pc[p] = "cq_inc" /\ pc'[p] = "cq_saves") =>
            \A u \in Users : wallet'[u] # wallet[u] => u = sessions[loc[p].sid].user]_vars

C16_Witness ==
  /\ resp.kind = "SessionNotFound" /\ resp.req.op = "completeQuiz"
  /\ resp.req.sid \in SessionIds
  /\ sessions[resp.req.sid].user # resp.req.user
  /\ \E i \in DOMAIN acked[resp.req.sid] :
       acked[resp.req.sid][i] = sessions[resp.req.sid].questions[i + 1].correctAnswer

\* C17: every Transaction leaves pending at most once: a Transaction that is
\* completed or failed keeps that status, and no verification or webhook
\* completes a Transaction that is completed already.
C17_LeavesPendingOnce ==
  [][/\ \A t \in txns : t.status # "pending" =>
          \E t2 \in txns' : t2.ref = t.ref /\ t2.status = t.status
     /\ \A p \in Procs :
          ( /\ pc[p] \in {"vp_tsave", "wh_tsave", "aw_tsave"}
            /\ pc'[p] = "idle" /\ resp'.kind # "ServerError"
            /\ loc[p].status = "completed" ) =>
            \A t \in FindByRef(txns, loc[p].ref) : t.status # "completed"]_vars

\* C18: payment verification is all-or-nothing: once no request is in flight,
\* a wallet holds credited money only if a deposit of its owner is recorded as
\* completed; a verification that failed at a store write has left no credit.
C18_VerificationAllOrNothing ==
  (\A p \in Procs : pc[p] = "idle") =>
    \A u \in Users :
      wallet[u] > InitialBalance =>
        \E t \in txns : t.user = u /\ t.type = "debit" /\ t.status = "completed"

\* C19: no two Transactions share a paymentReference, and an insert of a
\* Transaction whose paymentReference exists already is rejected and leaves
\* the ledger as it was.
C19_UniquePaymentReference ==
  [][/\ \A t1, t2 \in txns' : t1.ref = t2.ref => t1 = t2
     /\ \A t \in txns : \E t2 \in txns' : [t2 EXCEPT !.status = t.status] = t
     /\ \A p \in Procs :
          /\ ( /\ pc[p] = "wd_saves" /\ ~loc[p].tdone
               /\ (pc'[p] = "idle" \/ loc'[p].tdone)
               /\ \E t \in txns : t.ref = loc[p].ref ) =>
               /\ txns' = txns
               /\ IF pc'[p] = "idle" THEN resp'.kind = "ServerError" ELSE loc'[p].failed
          /\ ( /\ pc[p] = "idle" /\ pc'[p] = "idle" /\ requests' = requests + 1
               /\ resp'.proc = p /\ resp'.req.op = "initializePayment" ) =>
               IF resp'.kind = "ok"
                 THEN \E t \in txns' : /\ txns' = txns \cup {t}
                                       /\ \A t0 \in txns : t0.ref # t.ref
                 ELSE txns' = txns]_vars

C19_Witness ==
  /\ resp.req.op = "initializePayment" /\ resp.kind = "ServerError"
  /\ \E t \in txns : t.ref = PaymentReferenceFor("flutterwave") /\ t.user # resp.req.user

\* C20: the entry fee of a session is matched by exactly one completed debit
\* Transaction with reference quiz_fee_<sessionId>: when startQuiz has debited
\* the fee and ends, the ledger holds that Transaction.
C20_FeeDebitRecorded ==
  [][\A p \in Procs :
       (pc[p] = "sq_fee" /\ pc'[p] = "idle") =>
         LET found == {t \in txns' : t.ref = Ref("quiz_fee_", loc[p].sid)} IN
           /\ Cardinality(found) = 1
           /\ \A t \in found : /\ t.status = "completed" /\ t.type = "debit"
                               /\ t.user = loc[p].user /\ t.amount = QuizFee]_vars

\* The sum of the three parts, rounded to whole cents (two decimals).
RoundToCents(x) == ((2 * x + Cent) \div (2 * Cent)) * Cent

SpecifiedReward(correct, totalQuestions, timeSpent, recentWins) ==
  RoundToCents(calculateBaseReward(correct, totalQuestions)
                 + calculateTimeBonus(timeSpent, totalQuestions)
                 + calculateStreakBonus(recentWins))

\* C21: the reward credited at completion is base + timeBonus + streakBonus
\* rounded to two decimals: 10 questions, 7 correct, 150 s and no wins credit
\* exactly 15.25.
C21_RewardFormula ==
  calc.op = "completeQuiz" =>
    calc.credited = SpecifiedReward(calc.correct, calc.total, calc.timeSpent, calc.wins)

\* C22: the reward is never negative, and for a fixed number of questions,
\* time and streak no smaller correct count earns less.
C22_RewardMonotone ==
  calc.op # "none" =>
    /\ calc.credited >= 0
    /\ \A c \in 0 .. calc.correct :
         CreditedBy(calc.op, c, calc.total, calc.timeSpent, calc.wins) <= calc.credited

C22_Witness ==
  /\ calc.op = "calculateReward"
  /\ calc.timeSpent > calc.total * AvgTimePerQuestion
  /\ calc.correct > 0
  /\ calc.credited > 0

\* C24: the questions of a session are resolved for the requested category and
\* difficulty, and the session records the requested difficulty.
C24_SessionForRequested ==
  [][\A p \in Procs :
       /\ (pc[p] = "sq_gen" /\ pc'[p] # "sq_gen") =>
            /\ GenerateArgs(loc[p].category).category = loc[p].category
            /\ GenerateArgs(loc[p].category).difficulty = loc[p].difficulty
       /\ (pc[p] = "sq_save" /\ pc'[p] = "sq_debit") =>
            sessions'[Len(sessions')].difficulty = loc[p].difficulty]_vars

GeneratedAsAsked(l) ==
  /\ ValidQuestionSet(CastQuestions(l.questions))
  /\ Len(l.questions) = l.amount

\* C25: calls that follow one another in one hour bucket all succeed and their
\* sets are stored under the durable key of that bucket, also when the durable
\* entry was invalidated or too short in between.
C25_SequentialCallsSucceed ==
  [][\A p \in Procs :
       (/\ pc[p] = "gq_store"
        /\ pc'[p] = "idle"
        /\ \A q \in Procs \ {p} : pc[q] = "idle"
        /\ GeneratedAsAsked(loc[p])) =>
         /\ resp'.kind = "ok"
         /\ HasCacheKey(durable', CacheKey(loc[p].category, loc[p].difficulty, now))]_vars

\* C26: of two concurrent calls that both missed both tiers and both generated
\* a set, each returns its set and each set is stored as a durable entry.
C26_ConcurrentCallsSucceed ==
  [][\A p \in Procs :
       (/\ pc[p] = "gq_store"
        /\ pc'[p] = "idle"
        /\ \E q \in Procs \ {p} : pc[q] \in {"gq_openai", "gq_store"}
        /\ GeneratedAsAsked(loc[p])) =>
         /\ resp'.kind = "ok"
         /\ Len(durable') = Len(durable) + 1
         /\ durable'[Len(durable')].questions = CastQuestions(loc[p].questions)]_vars

\* C27: the durable read never takes an entry that has expired or is inactive.
C27_ReadsOnlyLiveEntries ==
  [][\A p \in Procs :
       (pc[p] = "gq_find" /\ pc'[p] = "gq_usage") =>
         \E i \in DOMAIN durable :
           /\ durable[i].cacheKey = loc'[p].cacheKey
           /\ durable[i].isActive
           /\ durable[i].expiresAt > now]_vars

StoredSetsValid ==
  /\ \A i \in DOMAIN durable : ValidQuestionSet(durable[i].questions)
  /\ \A e \in fast : Parses(e.value) /\ ValidQuestionSet(Parse(e.value))

C29_GenerationFailureLeavesTiers ==
  [][\A p \in Procs :
       (pc[p] = "gq_openai" /\ pc'[p] = "idle") =>
         /\ resp'.kind = "GenerationFailed"
         /\ durable' = durable
         /\ fast' = fast]_vars

C29_Witness ==
  /\ resp.kind = "GenerationFailed"
  /\ resp.req.op = "generateQuestions"
  /\ resp.data = Logged("malformed")

\* C30: no fault of a cache tier fails the call: when the gateway has produced
\* a set, the call returns that set.
C30_CacheFaultsTolerated ==
  [][\A p \in Procs :
       (pc[p] = "gq_store" /\ pc'[p] = "idle" /\ GeneratedAsAsked(loc[p])) =>
         /\ resp'.kind = "ok"
         /\ resp'.data = Served(loc[p].questions, "generated")]_vars

\* The entry as it may never change: everything but usageCount and isActive.
Fixed(doc) == [doc EXCEPT !.usageCount = 0, !.isActive = TRUE]

\* C31: a durable entry is never deleted, keeps its questions, category,
\* difficulty, cacheKey and expiresAt, and its isActive only goes from true to
\* false.
C31_EntriesRetained ==
  [][\A i \in DOMAIN durable :
       \E j \in DOMAIN durable' :
         /\ Fixed(durable'[j]) = Fixed(durable[i])
         /\ durable'[j].isActive => durable[i].isActive]_vars

\* C32: every session has no more answers than questions, a totalQuestions
\* equal to the number of its questions, and a score between 0 and
\* totalQuestions.
C32_SessionShape ==
  \A sid \in SessionIds :
    /\ Len(sessions[sid].userAnswers) <= Len(sessions[sid].questions)
    /\ sessions[sid].totalQuestions = Len(sessions[sid].questions)
    /\ 0 <= sessions[sid].score
    /\ sessions[sid].score <= sessions[sid].totalQuestions

C32_Witness ==
  \E sid \in SessionIds :
    /\ sessions[sid].status = "completed"
    /\ Len(sessions[sid].userAnswers) = Len(sessions[sid].questions)
    /\ sessions[sid].score = sessions[sid].totalQuestions
    /\ sessions[sid].score > 0

\* The durable tier has a usable entry for the request: its newest active
\* entry has not expired and has at least count questions.
DurableServes(category, difficulty, count) ==
  LET i == LatestActive(durable, category, difficulty)
  IN  /\ i # 0
      /\ durable[i].expiresAt > now
      /\ Len(durable[i].questions) >= count

CacheServes(category, difficulty, count) ==
  \/ DurableServes(category, difficulty, count)
  \/ FastHits(redisCacheKey(category, difficulty, count)) # {}

\* C33: the gateway is invoked only when neither tier serves the request (a
\* failed read counts as a miss), and once a generation has succeeded the
\* tiers serve the identical request.
C33_GatewayOnlyOnMiss ==
  [][\A p \in Procs :
       /\ (pc[p] = "gq_openai" /\ pc'[p] # "gq_openai") =>
            \/ loc[p].failed
            \/ ~CacheServes(loc[p].category, loc[p].difficulty, loc[p].amount)
       /\ (pc[p] = "gq_store" /\ pc'[p] = "idle" /\ GeneratedAsAsked(loc[p])) =>
            CacheServes(loc[p].category, loc[p].difficulty, loc[p].amount)']_vars

\* C34: the usageCount of a durable entry grows only by a call that returns
\* questions sliced from that entry; a lookup that finds too few questions
\* leaves it as it is.
C34_UsageCountsServedCalls ==
  [][\A p \in Procs :
       (pc[p] = "gq_usage" /\ pc'[p] # "gq_usage" /\ durable' # durable) =>
         /\ resp'.kind = "ok"
         /\ resp'.data = Served(ServeCached(loc[p].questions, loc[p].amount), "durable")]_vars

\* The entries of (category, difficulty) that have been made inactive.
Inactive(category, difficulty) ==
  {i \in DOMAIN durable : /\ durable[i].category = category
                          /\ durable[i].difficulty = difficulty
                          /\ ~durable[i].isActive}

C36_NoScoreAfterDisclosure ==
  [][\A p \in Procs :
       (/\ pc[p] = "sa_save"
        /\ pc'[p] = "idle"
        /\ acked[loc[p].sid][loc[p].idx] # "") =>
         Score(sessions'[loc[p].sid]) <= Score(sessions[loc[p].sid])]_vars

\* C37: a completed payment authorises at most one session: no two sessions
\* have the same paymentReference.
C37_OneSessionPerPayment ==
  \A s1, s2 \in SessionIds :
    sessions[s1].paymentReference = sessions[s2].paymentReference => s1 = s2

\* C38: a submitAnswer request of a user who does not own the session changes
\* none of its answers and is not told the correct answer of any question.
C38_SubmitOwnSessionOnly ==
  [][\A p \in Procs :
       (/\ pc[p] = "sa_save"
        /\ pc'[p] = "idle"
        /\ loc[p].user # sessions[loc[p].sid].user) =>
         /\ sessions'[loc[p].sid].userAnswers = sessions[loc[p].sid].userAnswers
         /\ resp'.kind # "ok"]_vars

\* The pending withdrawal Transactions that the request in slot p has recorded.
WithdrawalsOf(ledger, l) ==
  {t \in ledger : /\ t.ref = l.ref
                  /\ t.user = l.user
                  /\ t.amount = l.amount
                  /\ t.type = "credit"
                  /\ t.status = "pending"}

\* C39: when a withdrawal request finishes, the wallet holds the decremented
\* balance if and only if exactly one pending withdrawal Transaction of the
\* amount is recorded for the user.
C39_WithdrawalAllOrNothing ==
  [][\A p \in Procs :
       (pc[p] = "wd_saves" /\ pc'[p] = "idle") =>
         (wallet'[loc[p].user] = loc[p].bal
            <=> Cardinality(WithdrawalsOf(txns', loc[p])) = 1)]_vars

====
